---- MODULE Spec2Model ----
(***************************************************************************)
(* Model of the home-task service: the write path POST /items              *)
(* (validate -> persist -> publish -> respond), the read path              *)
(* GET /items/{id}, the W3C trace-context codec and the request            *)
(* instrumentation middleware.                                             *)
(*                                                                         *)
(* Strings are sequences of characters.  A character is written as a       *)
(* one-element TLA+ string, except the characters whose UTF-8 encoding is  *)
(* longer than one byte and the non-ASCII header octet, which are named.   *)
(* Option<T> is a sequence of length 0 (None) or 1 (Some).                 *)
(***************************************************************************)
EXTENDS Integers, Sequences, FiniteSets, TLC

VARIABLES
    pc,                       \* position of each request task
    req,                      \* the inbound HTTP request of each task
    trace_context,            \* create_item: let trace_context
    value,                    \* create_item: let value
    db_result,                \* outcome of the task's store call, once it returned
    item,                     \* create_item: let item
    send_result,              \* outcome of producer.send, once it returned
    response,                 \* the handler's response, once it returned
    delivered,                \* the response the middleware handed back
    completion_log,           \* "HTTP request completed" entries, per task
    items,                    \* rows of table items
    db_clock,                 \* the store's clock: statements run so far
    topic,                    \* messages of topic items.created, in log order
    kafka_publish_counter,    \* AppState.kafka_publish_counter
    db_duration_histogram,    \* AppState.db_duration_histogram (sample count)
    http_duration_histogram   \* AppState.http_duration_histogram (sample count)

vars == <<pc, req, trace_context, value, db_result, item, send_result, response,
          delivered, completion_log, items, db_clock, topic,
          kafka_publish_counter, db_duration_histogram, http_duration_histogram>>

-----------------------------------------------------------------------------
(* Bounds of the model *)

MaxReq == 2        \* request tasks in flight together
MaxPad == 1        \* whitespace characters put before / after a name
MaxFields == 4     \* hyphen-delimited fields of a generated traceparent

Req == 1..MaxReq

-----------------------------------------------------------------------------
(* Option and Result *)

None == <<>>
Some(x) == <<x>>
IsSome(o) == Len(o) = 1
Unwrap(o) == o[1]

Ok(x) == [ok |-> TRUE, val |-> <<x>>, err |-> <<>>]
Err(e) == [ok |-> FALSE, val |-> <<>>, err |-> <<e>>]

-----------------------------------------------------------------------------
(* Characters and strings *)

NonAsciiOctet == "0xE9"               \* a header octet outside visible ASCII
MultiByteChar == "U+00E9"             \* a letter encoded in two bytes
WideSpace == "U+3000"                 \* ideographic space, three bytes

Rep(c, n) == [i \in 1..n |-> c]

\* char::len_utf8
len_utf8(c) ==
    IF c = MultiByteChar THEN 2 ELSE IF c = WideSpace THEN 3 ELSE 1

\* char::is_whitespace (the White_Space property str::trim uses)
is_whitespace(c) == c \in {" ", "\t", "\n", WideSpace}

\* str::len: the length in bytes of the UTF-8 encoding
str_len(s) ==
    LET count(w) == Cardinality({i \in 1..Len(s) : len_utf8(s[i]) = w})
    IN count(1) + 2 * count(2) + 3 * count(3)

\* str::chars().count(): the length in characters
chars_count(s) == Len(s)

\* str::trim_start
trim_start(s) ==
    IF \A i \in 1..Len(s) : is_whitespace(s[i]) THEN <<>>
    ELSE LET k == CHOOSE i \in 1..Len(s) :
                      ~is_whitespace(s[i]) /\ \A j \in 1..(i - 1) : is_whitespace(s[j])
         IN SubSeq(s, k, Len(s))

\* str::trim_end
trim_end(s) ==
    IF \A i \in 1..Len(s) : is_whitespace(s[i]) THEN <<>>
    ELSE LET k == CHOOSE i \in 1..Len(s) :
                      ~is_whitespace(s[i]) /\ \A j \in (i + 1)..Len(s) : is_whitespace(s[j])
         IN SubSeq(s, 1, k)

\* str::trim
trim(s) == trim_end(trim_start(s))

\* str::split(sep).collect(): always at least one field
RECURSIVE split(_, _)
split(s, sep) ==
    IF \A i \in 1..Len(s) : s[i] # sep THEN <<s>>
    ELSE LET k == CHOOSE i \in 1..Len(s) :
                      s[i] = sep /\ \A j \in 1..(i - 1) : s[j] # sep
         IN <<SubSeq(s, 1, k - 1)>> \o split(SubSeq(s, k + 1, Len(s)), sep)

-----------------------------------------------------------------------------
(* models.rs: Item::validate_name *)

MaxNameLen == 255

EmptyNameMsg == <<"name cannot be empty">>
LongNameMsg == <<"name cannot exceed 255 characters">>

\* mutant: the limit compared with >= instead of >
validate_name_off_by_one(name) ==
    IF trim(name) = <<>> THEN Err(EmptyNameMsg)
    ELSE IF str_len(name) >= MaxNameLen THEN Err(LongNameMsg)
    ELSE Ok("unit")

validate_name(name) ==
    IF trim(name) = <<>> THEN Err(EmptyNameMsg)
    ELSE IF str_len(name) > MaxNameLen THEN Err(LongNameMsg)
    ELSE Ok("unit")

-----------------------------------------------------------------------------
(* main.rs: the trace-context codec *)

\* HeaderValue::to_str: Some only when every octet is visible ASCII
to_str(h) == IF \E i \in 1..Len(h) : h[i] = NonAsciiOctet THEN None ELSE Some(h)

\* mutant: the fields taken one position too early (version as trace id)
parse_traceparent_shifted(traceparent) ==
    LET parts == split(traceparent, "-")
    IN IF Len(parts) >= 3
       THEN Some([trace_id |-> parts[1], span_id |-> parts[2]])
       ELSE None

parse_traceparent(traceparent) ==
    LET parts == split(traceparent, "-")
    IN IF Len(parts) >= 3
       THEN Some([trace_id |-> parts[2], span_id |-> parts[3]])
       ELSE None

\* headers.get("traceparent").and_then(to_str().ok()).and_then(parse_traceparent)
extract_w3c_trace_context(header) ==
    IF ~IsSome(header) THEN None
    ELSE LET tp == to_str(Unwrap(header))
         IN IF IsSome(tp) THEN parse_traceparent(Unwrap(tp)) ELSE None

\* mutant: the flags written as not sampled
format_traceparent_unsampled(ctx) ==
    <<"0", "0", "-">> \o ctx.trace_id \o <<"-">> \o ctx.span_id \o <<"-", "0", "0">>

\* format!("00-{}-{}-01", ctx.trace_id, ctx.span_id)
format_traceparent(ctx) ==
    <<"0", "0", "-">> \o ctx.trace_id \o <<"-">> \o ctx.span_id \o <<"-", "0", "1">>

\* mutant: the key attached unconditionally, with an empty value without a context
inject_w3c_headers_keyed(ctx) ==
    <<[key |-> "traceparent",
       value |-> IF IsSome(ctx) THEN format_traceparent(Unwrap(ctx)) ELSE <<>>]>>

\* the OwnedHeaders set on the record
inject_w3c_headers(ctx) ==
    IF IsSome(ctx)
    THEN <<[key |-> "traceparent", value |-> format_traceparent(Unwrap(ctx))]>>
    ELSE <<>>

-----------------------------------------------------------------------------
(* models.rs: Item, CreateItemRequest, ItemEvent; main.rs: ErrorResponse *)

Item(id, name, v, created_at) ==
    [id |-> id, name |-> name, value |-> v, created_at |-> created_at]

\* ItemEvent::Created, built from the item (create_item, "Create event")
ItemEvent_Created(it) ==
    [variant |-> "Created", id |-> it.id, name |-> it.name,
     value |-> it.value, created_at |-> it.created_at]

\* mutant: the variant written under its Rust name, without the rename
to_vec_variant_name(event) ==
    [type |-> "Created", id |-> event.id, name |-> event.name,
     value |-> event.value, created_at |-> event.created_at]

\* serde_json::to_vec(event) with #[serde(tag = "type")], rename "item_created"
to_vec(event) ==
    [type |-> "item_created", id |-> event.id, name |-> event.name,
     value |-> event.value, created_at |-> event.created_at]

\* serde_json::from_slice::<ItemEvent>: the tag selects the variant, every field
\* of the variant is required
from_slice(doc) ==
    IF "type" \notin DOMAIN doc THEN Err("missing field type")
    ELSE IF doc.type # "item_created" THEN Err("unknown variant")
    ELSE IF ~({"id", "name", "value", "created_at"} \subseteq DOMAIN doc)
         THEN Err("missing field")
    ELSE Ok([variant |-> "Created", id |-> doc.id, name |-> doc.name,
             value |-> doc.value, created_at |-> doc.created_at])

ErrorResponse(msg) == [error |-> msg]

Response(status, body) == [status |-> status, body |-> body]

-----------------------------------------------------------------------------
(* The world outside the process *)

DbErrors == {"PoolTimedOut", "Io"}                              \* sqlx::Error
KafkaErrors == {"MessageTimedOut", "BrokerTransportFailure"}    \* KafkaError

\* an outcome injected into a store or broker call: None, or the error it fails with
Faults(errors) == {None} \cup {Some(e) : e \in errors}

FakeId == 0        \* "00000000-0000-0000-0000-000000000000": never generated
FirstId == 1       \* the id of the first row the store creates

\* rng.random_range(0..1000)
RandomLow == 0
RandomHigh == 1000
random_range(lo, hi) == lo..(hi - 1)
RandomSamples == {RandomLow, RandomHigh - 1}

PostRequest(name, v, header) ==
    [method |-> "POST", path |-> "/items", name |-> name, value |-> v,
     traceparent |-> header, id |-> FakeId]

GetRequest(id) ==
    [method |-> "GET", path |-> "/items/{id}", name |-> <<>>, value |-> None,
     traceparent |-> None, id |-> id]

NoRequest == [method |-> "none"]

-----------------------------------------------------------------------------
(* State after construction (main): empty table, empty topic, instruments at 0 *)

Init ==
    /\ pc = [r \in Req |-> "idle"]
    /\ req = [r \in Req |-> NoRequest]
    /\ trace_context = [r \in Req |-> None]
    /\ value = [r \in Req |-> None]
    /\ db_result = [r \in Req |-> None]
    /\ item = [r \in Req |-> None]
    /\ send_result = [r \in Req |-> None]
    /\ response = [r \in Req |-> None]
    /\ delivered = [r \in Req |-> None]
    /\ completion_log = [r \in Req |-> <<>>]
    /\ items = {}
    /\ db_clock = 0
    /\ topic = <<>>
    /\ kafka_publish_counter = 0
    /\ db_duration_histogram = 0
    /\ http_duration_histogram = 0

-----------------------------------------------------------------------------
(* http_tracing_middleware, before the handler: take the request, start the *)
(* timer, dispatch to the handler of the route.  Tasks are taken in order.  *)

Receive(r, q) ==
    /\ pc[r] = "idle"
    /\ \A k \in 1..(r - 1) : pc[k] # "idle"
    /\ req' = [req EXCEPT ![r] = q]
    /\ pc' = [pc EXCEPT ![r] = IF q.method = "POST" THEN "Validating" ELSE "Reading"]
    /\ UNCHANGED <<trace_context, value, db_result, item, send_result, response,
                   delivered, completion_log, items, db_clock, topic,
                   kafka_publish_counter, db_duration_histogram,
                   http_duration_histogram>>

-----------------------------------------------------------------------------
(* create_item *)

\* mutant: a value of zero taken for an absent one
value_or_random_zero_absent(v, rnd) ==
    IF IsSome(v) /\ Unwrap(v) # 0 THEN Unwrap(v) ELSE rnd

\* input.value.unwrap_or_else(|| rng.random_range(0..1000)); rnd is the draw
value_or_random(v, rnd) == IF IsSome(v) THEN Unwrap(v) ELSE rnd

\* mutant: the validation failure answered with 422
validation_response_unprocessable(e) == Response(422, Some(ErrorResponse(e)))

\* the early return of a failed validation
validation_response(e) == Response(400, Some(ErrorResponse(e)))

\* from the entry to the first await: validate, extract the trace context,
\* choose the value, issue the INSERT
create_item_validate(r, rnd) ==
    /\ pc[r] = "Validating"
    /\ rnd \in random_range(RandomLow, RandomHigh)
    /\ LET res == validate_name(req[r].name)
       IN IF ~res.ok
          THEN /\ response' = [response EXCEPT
                                 ![r] = Some(validation_response(Unwrap(res.err)))]
               /\ pc' = [pc EXCEPT ![r] = "ValidationFailed"]
               /\ UNCHANGED <<trace_context, value>>
          ELSE /\ trace_context' = [trace_context EXCEPT
                                      ![r] = extract_w3c_trace_context(req[r].traceparent)]
               /\ value' = [value EXCEPT ![r] = Some(value_or_random(req[r].value, rnd))]
               /\ pc' = [pc EXCEPT ![r] = "Persisting"]
               /\ UNCHANGED response
    /\ UNCHANGED <<req, db_result, item, send_result, delivered, completion_log,
                   items, db_clock, topic, kafka_publish_counter,
                   db_duration_histogram, http_duration_histogram>>

\* mutant: the id column without a generated default, every row gets the same id
fresh_id_fixed == FirstId

\* id UUID PRIMARY KEY DEFAULT gen_random_uuid(), as text: an id no row has
fresh_id == Cardinality(items) + 1

\* created_at DEFAULT NOW(), as text
now_text == <<"t", db_clock>>

\* mutant: the insert replaces the rows that have the name of the new row
db_insert_replacing(r, fault) ==
    /\ pc[r] = "Persisting"
    /\ db_result[r] = None
    /\ db_clock' = db_clock + 1
    /\ IF IsSome(fault)
       THEN /\ db_result' = [db_result EXCEPT ![r] = Some(Err(Unwrap(fault)))]
            /\ UNCHANGED items
       ELSE LET row == Item(fresh_id, req[r].name, Unwrap(value[r]), now_text)
            IN /\ items' = {x \in items : x.name # row.name} \cup {row}
               /\ db_result' = [db_result EXCEPT ![r] = Some(Ok(row))]
    /\ UNCHANGED <<pc, req, trace_context, value, item, send_result, response,
                   delivered, completion_log, topic, kafka_publish_counter,
                   db_duration_histogram, http_duration_histogram>>

\* the store runs INSERT INTO items (name, value) ... RETURNING, or fails
db_insert(r, fault) ==
    /\ pc[r] = "Persisting"
    /\ db_result[r] = None
    /\ db_clock' = db_clock + 1
    /\ IF IsSome(fault)
       THEN /\ db_result' = [db_result EXCEPT ![r] = Some(Err(Unwrap(fault)))]
            /\ UNCHANGED items
       ELSE LET row == Item(fresh_id, req[r].name, Unwrap(value[r]), now_text)
            IN /\ items' = items \cup {row}
               /\ db_result' = [db_result EXCEPT ![r] = Some(Ok(row))]
    /\ UNCHANGED <<pc, req, trace_context, value, item, send_result, response,
                   delivered, completion_log, topic, kafka_publish_counter,
                   db_duration_histogram, http_duration_histogram>>

\* let item = Item { id: row.0, name: row.1, value: row.2, created_at: row.3 }
item_of_row(row) == Item(row.id, row.name, row.value, row.created_at)

\* .map_err(..)?: the response of a failed insert
persist_failed_response(e) ==
    Response(500, Some(ErrorResponse(<<"Database error: ", e>>)))

\* mutant: the insert error is logged but not returned (no `?`), and the
\* handler goes on to publish an item built from the request
create_item_persisted_ignoring_error(r) ==
    /\ pc[r] = "Persisting"
    /\ IsSome(db_result[r])
    /\ LET res == Unwrap(db_result[r])
       IN IF ~res.ok
          THEN /\ item' = [item EXCEPT
                             ![r] = Some(Item(FakeId, req[r].name, Unwrap(value[r]), now_text))]
               /\ UNCHANGED db_duration_histogram
          ELSE /\ db_duration_histogram' = db_duration_histogram + 1
               /\ item' = [item EXCEPT ![r] = Some(item_of_row(Unwrap(res.val)))]
    /\ pc' = [pc EXCEPT ![r] = "Publishing"]
    /\ UNCHANGED <<req, trace_context, value, db_result, send_result, response,
                   delivered, completion_log, items, db_clock, topic,
                   kafka_publish_counter, http_duration_histogram>>

\* mutant: the handler does not record the duration of a successful insert
create_item_persisted_without_observe(r) ==
    /\ pc[r] = "Persisting"
    /\ IsSome(db_result[r])
    /\ LET res == Unwrap(db_result[r])
       IN IF ~res.ok
          THEN /\ response' = [response EXCEPT
                                 ![r] = Some(persist_failed_response(Unwrap(res.err)))]
               /\ pc' = [pc EXCEPT ![r] = "PersistFailed"]
               /\ UNCHANGED item
          ELSE /\ item' = [item EXCEPT ![r] = Some(item_of_row(Unwrap(res.val)))]
               /\ pc' = [pc EXCEPT ![r] = "Publishing"]
               /\ UNCHANGED response
    /\ UNCHANGED <<req, trace_context, value, db_result, send_result, delivered,
                   completion_log, items, db_clock, topic, kafka_publish_counter,
                   db_duration_histogram, http_duration_histogram>>

\* the handler resumes after fetch_one: on Err return 500, on Ok record the
\* duration, build item and event and enter publish_item_event up to send
create_item_persisted(r) ==
    /\ pc[r] = "Persisting"
    /\ IsSome(db_result[r])
    /\ LET res == Unwrap(db_result[r])
       IN IF ~res.ok
          THEN /\ response' = [response EXCEPT
                                 ![r] = Some(persist_failed_response(Unwrap(res.err)))]
               /\ pc' = [pc EXCEPT ![r] = "PersistFailed"]
               /\ UNCHANGED <<db_duration_histogram, item>>
          ELSE /\ db_duration_histogram' = db_duration_histogram + 1
               /\ item' = [item EXCEPT ![r] = Some(item_of_row(Unwrap(res.val)))]
               /\ pc' = [pc EXCEPT ![r] = "Publishing"]
               /\ UNCHANGED response
    /\ UNCHANGED <<req, trace_context, value, db_result, send_result, delivered,
                   completion_log, items, db_clock, topic, kafka_publish_counter,
                   http_duration_histogram>>

\* mutant: the message keyed by the nil id instead of the id of the event
record_of_nil_key(event, ctx) ==
    [topic |-> "items.created", key |-> FakeId, payload |-> to_vec(event),
     headers |-> inject_w3c_headers(ctx)]

\* publish_item_event: the FutureRecord handed to producer.send
record_of(event, ctx) ==
    [topic |-> "items.created", key |-> event.id, payload |-> to_vec(event),
     headers |-> inject_w3c_headers(ctx)]

\* mutant: the trace context is kept in a place the requests in flight share,
\* the message gets the context of any of them
broker_send_shared_context(r, fault) ==
    /\ pc[r] = "Publishing"
    /\ send_result[r] = None
    /\ IF IsSome(fault)
       THEN /\ send_result' = [send_result EXCEPT ![r] = Some(Err(Unwrap(fault)))]
            /\ UNCHANGED topic
       ELSE /\ \E k \in {k \in Req : pc[k] \in {"Persisting", "Publishing"}} :
                   topic' = Append(topic, record_of(ItemEvent_Created(Unwrap(item[r])),
                                                    trace_context[k]))
            /\ send_result' = [send_result EXCEPT
                    ![r] = Some(Ok([partition |-> 0, offset |-> Len(topic)]))]
    /\ UNCHANGED <<pc, req, trace_context, value, db_result, item, response,
                   delivered, completion_log, items, db_clock,
                   kafka_publish_counter, db_duration_histogram,
                   http_duration_histogram>>

\* producer.send(record, 5 s): the broker appends the message, or the send
\* fails (rejection, or no answer within the timeout)
broker_send(r, fault) ==
    /\ pc[r] = "Publishing"
    /\ send_result[r] = None
    /\ IF IsSome(fault)
       THEN /\ send_result' = [send_result EXCEPT ![r] = Some(Err(Unwrap(fault)))]
            /\ UNCHANGED topic
       ELSE /\ topic' = Append(topic, record_of(ItemEvent_Created(Unwrap(item[r])),
                                                trace_context[r]))
            /\ send_result' = [send_result EXCEPT
                    ![r] = Some(Ok([partition |-> 0, offset |-> Len(topic)]))]
    /\ UNCHANGED <<pc, req, trace_context, value, db_result, item, response,
                   delivered, completion_log, items, db_clock,
                   kafka_publish_counter, db_duration_histogram,
                   http_duration_histogram>>

\* Ok((StatusCode::CREATED, Json(item)))
created_response(it) == Response(201, Some(it))

\* mutant: the publish error is propagated with `?` and answered with 500
create_item_published_propagating(r) ==
    /\ pc[r] = "Publishing"
    /\ IsSome(send_result[r])
    /\ kafka_publish_counter' =
           IF Unwrap(send_result[r]).ok THEN kafka_publish_counter + 1
           ELSE kafka_publish_counter
    /\ response' = [response EXCEPT
           ![r] = IF Unwrap(send_result[r]).ok
                  THEN Some(created_response(Unwrap(item[r])))
                  ELSE Some(Response(500, Some(ErrorResponse(
                           <<"Kafka error: ", Unwrap(Unwrap(send_result[r]).err)>>))))]
    /\ pc' = [pc EXCEPT ![r] = "Responded"]
    /\ UNCHANGED <<req, trace_context, value, db_result, item, send_result,
                   delivered, completion_log, items, db_clock, topic,
                   db_duration_histogram, http_duration_histogram>>

\* mutant: the handler goes on only once the broker acknowledged the message
create_item_published_awaiting_ack(r) ==
    /\ pc[r] = "Publishing"
    /\ IsSome(send_result[r])
    /\ Unwrap(send_result[r]).ok
    /\ kafka_publish_counter' = kafka_publish_counter + 1
    /\ response' = [response EXCEPT ![r] = Some(created_response(Unwrap(item[r])))]
    /\ pc' = [pc EXCEPT ![r] = "Responded"]
    /\ UNCHANGED <<req, trace_context, value, db_result, item, send_result,
                   delivered, completion_log, items, db_clock, topic,
                   db_duration_histogram, http_duration_histogram>>

\* mutant: a failed publish is queued again and reaches the broker
create_item_published_requeueing(r) ==
    /\ pc[r] = "Publishing"
    /\ IsSome(send_result[r])
    /\ kafka_publish_counter' =
           IF Unwrap(send_result[r]).ok THEN kafka_publish_counter + 1
           ELSE kafka_publish_counter
    /\ topic' =
           IF Unwrap(send_result[r]).ok THEN topic
           ELSE Append(topic, record_of(ItemEvent_Created(Unwrap(item[r])),
                                        trace_context[r]))
    /\ response' = [response EXCEPT ![r] = Some(created_response(Unwrap(item[r])))]
    /\ pc' = [pc EXCEPT ![r] = "Responded"]
    /\ UNCHANGED <<req, trace_context, value, db_result, item, send_result,
                   delivered, completion_log, items, db_clock,
                   db_duration_histogram, http_duration_histogram>>

\* mutant: the counter incremented after the send whatever its result
create_item_published_counting_attempts(r) ==
    /\ pc[r] = "Publishing"
    /\ IsSome(send_result[r])
    /\ kafka_publish_counter' = kafka_publish_counter + 1
    /\ response' = [response EXCEPT ![r] = Some(created_response(Unwrap(item[r])))]
    /\ pc' = [pc EXCEPT ![r] = "Responded"]
    /\ UNCHANGED <<req, trace_context, value, db_result, item, send_result,
                   delivered, completion_log, items, db_clock, topic,
                   db_duration_histogram, http_duration_histogram>>

\* publish_item_event resumes after send (Ok: count it; Err: return it) and
\* create_item matches on the result and responds
create_item_published(r) ==
    /\ pc[r] = "Publishing"
    /\ IsSome(send_result[r])
    /\ kafka_publish_counter' =
           IF Unwrap(send_result[r]).ok THEN kafka_publish_counter + 1
           ELSE kafka_publish_counter
    /\ response' = [response EXCEPT ![r] = Some(created_response(Unwrap(item[r])))]
    /\ pc' = [pc EXCEPT ![r] = "Responded"]
    /\ UNCHANGED <<req, trace_context, value, db_result, item, send_result,
                   delivered, completion_log, items, db_clock, topic,
                   db_duration_histogram, http_duration_histogram>>

-----------------------------------------------------------------------------
(* get_item *)

\* mutant: the WHERE clause never matches the text of a generated id
select_by_id_never(id) ==
    IF \E row \in items : row.id = id /\ id = FakeId
    THEN Some(CHOOSE row \in items : row.id = id)
    ELSE None

\* SELECT ... FROM items WHERE id::text = $1, fetch_optional
select_by_id(id) ==
    IF \E row \in items : row.id = id
    THEN Some(CHOOSE row \in items : row.id = id)
    ELSE None

\* the store runs the SELECT, or fails
db_select(r, fault) ==
    /\ pc[r] = "Reading"
    /\ db_result[r] = None
    /\ db_clock' = db_clock + 1
    /\ db_result' = [db_result EXCEPT
           ![r] = IF IsSome(fault) THEN Some(Err(Unwrap(fault)))
                  ELSE Some(Ok(select_by_id(req[r].id)))]
    /\ UNCHANGED <<pc, req, trace_context, value, item, send_result, response,
                   delivered, completion_log, items, topic, kafka_publish_counter,
                   db_duration_histogram, http_duration_histogram>>

\* mutant: fetch_one instead of fetch_optional, a missing row is an error
found_response_row_required(row) ==
    IF IsSome(row) THEN Response(200, Some(item_of_row(Unwrap(row))))
    ELSE Response(500, None)

\* match row { Some(..) => Ok((200, Json(Item {..}))), None => Err(404) }
found_response(row) ==
    IF IsSome(row) THEN Response(200, Some(item_of_row(Unwrap(row))))
    ELSE Response(404, None)

\* the handler resumes after fetch_optional
get_item_fetched(r) ==
    /\ pc[r] = "Reading"
    /\ IsSome(db_result[r])
    /\ LET res == Unwrap(db_result[r])
       IN IF ~res.ok
          THEN /\ response' = [response EXCEPT ![r] = Some(Response(500, None))]
               /\ UNCHANGED db_duration_histogram
          ELSE /\ db_duration_histogram' = db_duration_histogram + 1
               /\ response' = [response EXCEPT
                                 ![r] = Some(found_response(Unwrap(res.val)))]
    /\ pc' = [pc EXCEPT ![r] = "Responded"]
    /\ UNCHANGED <<req, trace_context, value, db_result, item, send_result,
                   delivered, completion_log, items, db_clock, topic,
                   kafka_publish_counter, http_duration_histogram>>

-----------------------------------------------------------------------------
(* http_tracing_middleware, after the handler returned *)

\* mutant: the boundaries of the levels taken exclusive
log_level_exclusive(status) ==
    IF status > 500 THEN "error" ELSE IF status > 400 THEN "warn" ELSE "info"

log_level(status) ==
    IF status >= 500 THEN "error" ELSE IF status >= 400 THEN "warn" ELSE "info"

HandlerReturned == {"ValidationFailed", "PersistFailed", "Responded"}

\* mutant: the duration is observed only for the requests that succeeded
complete_observing_success(r) ==
    /\ pc[r] \in HandlerReturned
    /\ http_duration_histogram' =
           IF Unwrap(response[r]).status < 400 THEN http_duration_histogram + 1
           ELSE http_duration_histogram
    /\ completion_log' = [completion_log EXCEPT
           ![r] = Append(@, [level |-> log_level(Unwrap(response[r]).status),
                             status |-> Unwrap(response[r]).status])]
    /\ delivered' = [delivered EXCEPT ![r] = response[r]]
    /\ pc' = [pc EXCEPT ![r] = "done"]
    /\ UNCHANGED <<req, trace_context, value, db_result, item, send_result,
                   response, items, db_clock, topic, kafka_publish_counter,
                   db_duration_histogram>>

\* mutant: the duration of the request is not observed
complete_without_observe(r) ==
    /\ pc[r] \in HandlerReturned
    /\ completion_log' = [completion_log EXCEPT
           ![r] = Append(@, [level |-> log_level(Unwrap(response[r]).status),
                             status |-> Unwrap(response[r]).status])]
    /\ delivered' = [delivered EXCEPT ![r] = response[r]]
    /\ pc' = [pc EXCEPT ![r] = "done"]
    /\ UNCHANGED <<req, trace_context, value, db_result, item, send_result,
                   response, items, db_clock, topic, kafka_publish_counter,
                   db_duration_histogram, http_duration_histogram>>

complete(r) ==
    /\ pc[r] \in HandlerReturned
    /\ http_duration_histogram' = http_duration_histogram + 1
    /\ completion_log' = [completion_log EXCEPT
           ![r] = Append(@, [level |-> log_level(Unwrap(response[r]).status),
                             status |-> Unwrap(response[r]).status])]
    /\ delivered' = [delivered EXCEPT ![r] = response[r]]
    /\ pc' = [pc EXCEPT ![r] = "done"]
    /\ UNCHANGED <<req, trace_context, value, db_result, item, send_result,
                   response, items, db_clock, topic, kafka_publish_counter,
                   db_duration_histogram>>

-----------------------------------------------------------------------------
(* metrics: the families gathered from the default registry, where          *)
(* setup_opentelemetry registered the three instruments                     *)

metrics ==
    [home_task_kafka_publish_count |-> kafka_publish_counter,
     home_task_db_query_duration_count |-> db_duration_histogram,
     home_task_http_server_duration_count |-> http_duration_histogram]

-----------------------------------------------------------------------------
(* Spec: concurrent requests, each an independent task *)

TraceparentSample == <<"0", "0", "-", "a", "b", "-", "c", "-", "0", "1">>
TraceparentOtherFlags == <<"f", "f", "-", "a", "-", "c", "d", "-", "0", "0">>

\* what the clients send
PostRequests ==
    { PostRequest(<<" ", "a">>, None, None),
      PostRequest(<<"b">>, Some(-5), Some(TraceparentOtherFlags)),
      PostRequest(<<" ">>, Some(7), Some(TraceparentSample)) }

GetRequests == {GetRequest(FakeId), GetRequest(FirstId)}

\* how the store and the broker fail
DbFaults == Faults({"PoolTimedOut"})
SendFaults == Faults({"MessageTimedOut"})

Next ==
    \/ \E r \in Req, q \in PostRequests \cup GetRequests : Receive(r, q)
    \/ \E r \in Req, rnd \in RandomSamples : create_item_validate(r, rnd)
    \/ \E r \in Req, f \in DbFaults : db_insert(r, f)
    \/ \E r \in Req : create_item_persisted(r)
    \/ \E r \in Req, f \in SendFaults : broker_send(r, f)
    \/ \E r \in Req : create_item_published(r)
    \/ \E r \in Req, f \in DbFaults : db_select(r, f)
    \/ \E r \in Req : get_item_fetched(r)
    \/ \E r \in Req : complete(r)

Spec == Init /\ [][Next]_vars

-----------------------------------------------------------------------------
(* SpecFair: Spec with the progress the runtime and the world give.  A     *)
(* handler that can resume is polled again; the store answers a statement  *)
(* (with rows or an error); producer.send resolves with a delivery or,     *)
(* after message.timeout.ms, with an error.                                *)

\* the steps that follow the receipt of request r
Step(r) ==
    \/ \E rnd \in RandomSamples : create_item_validate(r, rnd)
    \/ \E f \in DbFaults : db_insert(r, f)
    \/ create_item_persisted(r)
    \/ \E f \in SendFaults : broker_send(r, f)
    \/ create_item_published(r)
    \/ \E f \in DbFaults : db_select(r, f)
    \/ get_item_fetched(r)
    \/ complete(r)

Fairness == \A r \in Req : WF_vars(Step(r))

SpecFair == Spec /\ Fairness

-----------------------------------------------------------------------------
(* SpecDisconnect: Spec with clients that may close their connection.  The  *)
(* handlers run inside the future of the connection that axum::serve        *)
(* drives (no tokio::spawn detaches the insert or the publish): when the    *)
(* client closes the connection the server drops that future, and the       *)
(* request stops at the await it is suspended at.  A statement the store    *)
(* already ran stays; nothing after the await runs.                         *)

AwaitPoints == {"Persisting", "Publishing", "Reading"}

disconnect(r) ==
    /\ pc[r] \in AwaitPoints
    /\ pc' = [pc EXCEPT ![r] = "Cancelled"]
    /\ UNCHANGED <<req, trace_context, value, db_result, item, send_result,
                   response, delivered, completion_log, items, db_clock, topic,
                   kafka_publish_counter, db_duration_histogram,
                   http_duration_histogram>>

NextDisconnect ==
    \/ Next
    \/ \E r \in Req : disconnect(r)

SpecDisconnect == Init /\ [][NextDisconnect]_vars

-----------------------------------------------------------------------------
(* SpecValidate: one create request at a time, its name drawn from names    *)
(* around the limit of 255, padded with whitespace, of one- and two-byte    *)
(* letters                                                                  *)

CoreLens == {0, 1, MaxNameLen \div 2 + 1, MaxNameLen - 1, MaxNameLen, MaxNameLen + 1}

NameInputs ==
    { Rep(ws, l) \o Rep(c, n) \o Rep(ws, t) :
          l \in 0..MaxPad, t \in 0..MaxPad, n \in CoreLens,
          c \in {"a", MultiByteChar}, ws \in {" ", WideSpace} }
    \cup {<<"a", " ", "b">>, Rep(" ", MaxNameLen + 1)}

ValueInputs == {None, Some(0), Some(-5), Some(1000)}

NextValidate ==
    \/ /\ pc[1] = "idle"
       /\ \E n \in NameInputs, v \in ValueInputs : Receive(1, PostRequest(n, v, None))
    \/ \E rnd \in RandomSamples : create_item_validate(1, rnd)
    \/ \E f \in Faults(DbErrors) : db_insert(1, f)
    \/ create_item_persisted(1)
    \/ \E f \in Faults(KafkaErrors) : broker_send(1, f)
    \/ create_item_published(1)
    \/ complete(1)

SpecValidate == Init /\ [][NextValidate]_vars

-----------------------------------------------------------------------------
(* SpecTrace: one create request at a time, its traceparent header absent   *)
(* or made of up to MaxFields hyphen-delimited fields                       *)

RECURSIVE join(_, _)
join(fields, sep) ==
    IF Len(fields) = 1 THEN fields[1]
    ELSE fields[1] \o <<sep>> \o join(Tail(fields), sep)

FieldSamples == {<<>>, <<"0", "0">>, <<"a">>, <<"c", "d">>, <<NonAsciiOctet>>}

HeaderInputs ==
    {None, Some(TraceparentSample)} \cup
    { Some(join(fs, "-")) :
          fs \in UNION {[1..k -> FieldSamples] : k \in 1..MaxFields} }

NextTrace ==
    \/ /\ pc[1] = "idle"
       /\ \E h \in HeaderInputs : Receive(1, PostRequest(<<"a">>, Some(1), h))
    \/ \E rnd \in RandomSamples : create_item_validate(1, rnd)
    \/ \E f \in Faults(DbErrors) : db_insert(1, f)
    \/ create_item_persisted(1)
    \/ \E f \in Faults(KafkaErrors) : broker_send(1, f)
    \/ create_item_published(1)
    \/ complete(1)

SpecTrace == Init /\ [][NextTrace]_vars

-----------------------------------------------------------------------------
(* Vocabulary of the properties *)

IsPost(r) == req[r].method = "POST"
IsGet(r) == req[r].method = "GET"
Moved(r) == pc'[r] # pc[r]

InsertReturned(r) == IsPost(r) /\ IsSome(db_result[r])
InsertOk(r) == InsertReturned(r) /\ Unwrap(db_result[r]).ok
InsertFailed(r) == InsertReturned(r) /\ ~Unwrap(db_result[r]).ok
InsertedRow(r) == Unwrap(Unwrap(db_result[r]).val)

SendOk(r) == IsSome(send_result[r]) /\ Unwrap(send_result[r]).ok
SendFailed(r) == IsSome(send_result[r]) /\ ~Unwrap(send_result[r]).ok

\* the create requests whose insert succeeded
Persisted == {r \in Req : InsertOk(r)}

\* task r got the response of this status from the service
Got(r, status) ==
    pc[r] = "done" /\ IsSome(delivered[r]) /\ Unwrap(delivered[r]).status = status
GotBody(r) == Unwrap(Unwrap(delivered[r]).body)

-----------------------------------------------------------------------------
(* C1: under any interleaving, a request reaches its publish call only     *)
(* after its own insert returned successfully, and every Created event on  *)
(* the broker carries the id of an entity that exists in the store.        *)
C1_PublishAfterPersist ==
    /\ \A r \in Req :
          (pc[r] = "Publishing" \/ IsSome(send_result[r]))
              => (InsertOk(r) /\ InsertedRow(r) \in items)
    /\ \A i \in 1..Len(topic) :
          \E row \in items : row.id = topic[i].key /\ row.id = topic[i].payload.id

\* an event is on the broker while another request's insert is in flight
C1_Witness ==
    \E r1, r2 \in Req :
        /\ SendOk(r1) /\ Len(topic) >= 1
        /\ pc[r2] = "Persisting" /\ db_result[r2] = None

(* C2: when the insert succeeded the request never takes a failure exit    *)
(* and answers 201 with the persisted entity, a function of the inserted   *)
(* row alone: the same whether the publish succeeded or failed.            *)
C2_CreatedWhateverPublish ==
    \A r \in Req :
        InsertOk(r) =>
            /\ pc[r] \in {"Persisting", "Publishing", "Responded", "done"}
            /\ pc[r] \in {"Responded", "done"}
                  => response[r] = Some(Response(201, Some(InsertedRow(r))))
            /\ pc[r] = "done"
                  => delivered[r] = Some(Response(201, Some(InsertedRow(r))))

\* two creates answered 201, one published and one whose publish failed
C2_Witness ==
    \E r1, r2 \in Req :
        /\ Got(r1, 201) /\ SendOk(r1)
        /\ Got(r2, 201) /\ SendFailed(r2)

(* C3: once a create was answered 201 with an entity of id i, a GET of i   *)
(* whose store read is made later and does not fail reads that entity and  *)
(* answers 200 with a body identical to the create response, also when the *)
(* publish of that create failed.                                          *)
C3_GetAfterCreate ==
    [][\A g \in Req :
          /\ \A c \in Req :
                ( /\ IsPost(c) /\ Got(c, 201)
                  /\ IsGet(g) /\ req[g].id = GotBody(c).id
                  /\ db_result[g] = None /\ IsSome(db_result'[g])
                  /\ Unwrap(db_result'[g]).ok )
                    => Unwrap(db_result'[g]).val = Some(Some(GotBody(c)))
          /\ ( /\ IsGet(g) /\ pc[g] = "Reading" /\ pc'[g] = "Responded"
               /\ Unwrap(db_result[g]).ok /\ IsSome(Unwrap(Unwrap(db_result[g]).val)) )
                 => response'[g] =
                        Some(Response(200, Unwrap(Unwrap(db_result[g]).val)))
          /\ (IsGet(g) /\ Moved(g) /\ pc'[g] = "done")
                 => delivered'[g] = response[g]
      ]_vars

\* a create whose publish failed, and a GET that returned its entity
C3_Witness ==
    \E c, g \in Req :
        /\ IsPost(c) /\ Got(c, 201) /\ SendFailed(c)
        /\ IsGet(g) /\ req[g].id = GotBody(c).id
        /\ delivered[g] = Some(Response(200, Some(GotBody(c))))

(* C4: a create whose name fails validation ends in ValidationFailed with  *)
(* 400 and {error: <message of the validator>}; none of its steps calls    *)
(* the store or the publisher: rows, broker messages, publish counter and  *)
(* store-duration histogram are unchanged by them.                         *)
C4_ValidationFailed ==
    [][\A r \in Req :
          ( /\ IsPost(r) /\ Moved(r)
            /\ pc[r] \in {"Validating", "ValidationFailed"}
            /\ ~validate_name(req[r].name).ok )
          => LET answer == Some(Response(400,
                     Some([error |-> Unwrap(validate_name(req[r].name).err)])))
             IN /\ UNCHANGED <<items, topic, kafka_publish_counter,
                               db_duration_histogram>>
                /\ db_result'[r] = None /\ send_result'[r] = None
                /\ pc[r] = "Validating"
                      => (pc'[r] = "ValidationFailed" /\ response'[r] = answer)
                /\ pc[r] = "ValidationFailed"
                      => (pc'[r] = "done" /\ delivered'[r] = answer)
      ]_vars

\* a rejected create next to a stored and published one
C4_Witness ==
    \E r, r2 \in Req :
        /\ IsPost(r) /\ Got(r, 400) /\ GotBody(r) = [error |-> EmptyNameMsg]
        /\ db_result[r] = None
        /\ SendOk(r2) /\ kafka_publish_counter = 1

(* C5: a create whose insert fails ends in PersistFailed with 500 and      *)
(* never reaches the publish call: it has no send, and the broker messages *)
(* and the publish counter stay within the creates whose insert succeeded. *)
C5_PersistFailed ==
    /\ \A r \in Req :
          InsertFailed(r) =>
              /\ pc[r] \in {"Persisting", "PersistFailed", "done"}
              /\ send_result[r] = None
              /\ pc[r] = "PersistFailed" => Unwrap(response[r]).status = 500
              /\ pc[r] = "done" => Unwrap(delivered[r]).status = 500
    /\ \A i \in 1..Len(topic) : \E r \in Persisted : InsertedRow(r).id = topic[i].key
    /\ Len(topic) <= Cardinality(Persisted)
    /\ kafka_publish_counter <= Cardinality(Persisted)

\* a create answered 500 next to a published one
C5_Witness ==
    \E r, r2 \in Req :
        /\ InsertFailed(r) /\ Got(r, 500)
        /\ SendOk(r2) /\ kafka_publish_counter = 1 /\ Len(topic) = 1

(* C6: GET /items/{id} reads a row exactly when one with that id exists,   *)
(* answers 200 with it, 404 when none matches and 500 when the read fails, *)
(* and none of its steps publishes or changes rows, broker messages or the *)
(* publish counter.                                                        *)
C6_ReadPath ==
    [][/\ \A g \in Req :
            (req'[g].method = "GET" /\ Moved(g)) =>
                /\ UNCHANGED <<items, topic, kafka_publish_counter>>
                /\ send_result'[g] = None
                /\ (pc[g] = "Reading" /\ pc'[g] = "Responded") =>
                      LET res == Unwrap(db_result[g])
                      IN /\ ~res.ok => response'[g] = Some(Response(500, None))
                         /\ (res.ok /\ Unwrap(res.val) = None)
                               => response'[g] = Some(Response(404, None))
                         /\ (res.ok /\ Unwrap(res.val) # None)
                               => response'[g] = Some(Response(200, Unwrap(res.val)))
                /\ pc'[g] = "done" => delivered'[g] = response[g]
       /\ \A h \in Req :
            ( /\ IsGet(h) /\ db_result[h] = None /\ IsSome(db_result'[h])
              /\ Unwrap(db_result'[h]).ok ) =>
                LET matching == {row \in items : row.id = req[h].id}
                    read == Unwrap(Unwrap(db_result'[h]).val)
                IN /\ matching = {} => read = None
                   /\ matching # {} => \E row \in matching : read = Some(row)
      ]_vars

\* a GET answered 200 while the broker holds no message
C6_Witness ==
    \E g \in Req : IsGet(g) /\ Got(g, 200) /\ Len(topic) = 0

-----------------------------------------------------------------------------
(* Vocabulary of the validation properties (SpecValidate) *)

\* the handler of create request r is past validate_name
Validated(r) == IsPost(r) /\ pc[r] \notin {"idle", "Validating"}
\* ... and validate_name returned Err: the handler answered 400
Rejected(r) == IsSome(response[r]) /\ Unwrap(response[r]).status = 400
RejectedWith(r, msg) ==
    Rejected(r) /\ Unwrap(response[r]).body = Some([error |-> msg])
\* ... and validate_name returned Ok: the handler went on to the insert
Accepted(r) == IsSome(value[r]) /\ ~Rejected(r)

NonWhitespaceAt(n) == {i \in 1..Len(n) : ~is_whitespace(n[i])}
AllWhitespace(n) == NonWhitespaceAt(n) = {}
\* the characters from the first to the last non-whitespace character
TrimmedChars(n) ==
    IF AllWhitespace(n) THEN 0
    ELSE LET first == CHOOSE i \in NonWhitespaceAt(n) : \A j \in NonWhitespaceAt(n) : i <= j
             last == CHOOSE i \in NonWhitespaceAt(n) : \A j \in NonWhitespaceAt(n) : j <= i
         IN last - first + 1

C8_OnlyTheTwoChecks ==
    \A r \in Req :
        Validated(r) =>
            IF AllWhitespace(req[r].name) THEN RejectedWith(r, EmptyNameMsg)
            ELSE IF chars_count(req[r].name) > MaxNameLen
                 THEN RejectedWith(r, LongNameMsg)
                 ELSE Accepted(r)

-----------------------------------------------------------------------------
(* Vocabulary of the trace-context properties (SpecTrace) *)

HyphensAt(h) == {i \in 1..Len(h) : h[i] = "-"}
NumFields(h) == Cardinality(HyphensAt(h)) + 1
\* the position of the k-th hyphen; 0 before the first field, Len + 1 after the last
Hyphen(h, k) ==
    IF k = 0 THEN 0
    ELSE IF k > Cardinality(HyphensAt(h)) THEN Len(h) + 1
    ELSE CHOOSE i \in HyphensAt(h) : Cardinality({j \in HyphensAt(h) : j <= i}) = k
\* the k-th hyphen-delimited field
FieldOf(h, k) == SubSeq(h, Hyphen(h, k - 1) + 1, Hyphen(h, k) - 1)
IsText(h) == \A i \in 1..Len(h) : h[i] # NonAsciiOctet

\* the context the header's 2nd and 3rd fields make
FieldsContext(h) == Some([trace_id |-> FieldOf(h, 2), span_id |-> FieldOf(h, 3)])

\* without a trace context the create is still persisted, published and answered
AbsenceIsNoError(r) ==
    (Accepted(r) /\ trace_context[r] = None) =>
        /\ pc[r] \in {"Persisting", "PersistFailed", "Publishing", "Responded", "done"}
        /\ (pc[r] = "done" /\ InsertOk(r)) => (Got(r, 201) /\ IsSome(send_result[r]))

(* C9, as claimed: extraction returns absence when the header is missing   *)
(* or has fewer than 3 fields, and for every header with at least 3 fields *)
(* the context made of its 2nd and 3rd fields; absence is no error.        *)
C9_ExtractByFieldCount ==
    \A r \in Req :
        Accepted(r) =>
            LET h == req[r].traceparent
            IN /\ ~IsSome(h) => trace_context[r] = None
               /\ (IsSome(h) /\ NumFields(Unwrap(h)) < 3) => trace_context[r] = None
               /\ (IsSome(h) /\ NumFields(Unwrap(h)) >= 3)
                     => trace_context[r] = FieldsContext(Unwrap(h))
               /\ AbsenceIsNoError(r)

(* C9, amended: extraction returns absence when the header is missing, is  *)
(* not visible-ASCII text or has fewer than 3 fields, and for every text   *)
(* header with at least 3 fields the context made of its 2nd and 3rd       *)
(* fields; absence is no error.                                            *)
C9_ExtractTextByFieldCount ==
    \A r \in Req :
        Accepted(r) =>
            LET h == req[r].traceparent
            IN /\ ~IsSome(h) => trace_context[r] = None
               /\ (IsSome(h) /\ ~IsText(Unwrap(h))) => trace_context[r] = None
               /\ (IsSome(h) /\ NumFields(Unwrap(h)) < 3) => trace_context[r] = None
               /\ (IsSome(h) /\ IsText(Unwrap(h)) /\ NumFields(Unwrap(h)) >= 3)
                     => trace_context[r] = FieldsContext(Unwrap(h))
               /\ AbsenceIsNoError(r)

\* a create with a two-field header: no context, persisted, published, 201
C9_Witness ==
    \E r \in Req :
        /\ IsPost(r) /\ IsSome(req[r].traceparent)
        /\ NumFields(Unwrap(req[r].traceparent)) = 2
        /\ trace_context[r] = None
        /\ Got(r, 201) /\ SendOk(r)

\* the message the broker appended for request r
MessageOf(r) == topic[Unwrap(Unwrap(send_result[r]).val).offset + 1]

(* C10: the message published for a create that carries a trace context    *)
(* has the traceparent "00-<trace id>-<span id>-01" with the trace id and   *)
(* span id extracted from the request (its 2nd and 3rd fields), whatever    *)
(* the inbound version and flags, and parsing it gives the same context.    *)
C10_OutboundTraceparent ==
    \A r \in Req :
        (IsPost(r) /\ SendOk(r) /\ IsSome(trace_context[r])) =>
            LET h == Unwrap(req[r].traceparent)
                ctx == Unwrap(trace_context[r])
                hs == MessageOf(r).headers
            IN /\ Len(hs) = 1 /\ hs[1].key = "traceparent"
               /\ ctx.trace_id = FieldOf(h, 2) /\ ctx.span_id = FieldOf(h, 3)
               /\ NumFields(hs[1].value) = 4
               /\ FieldOf(hs[1].value, 1) = <<"0", "0">>
               /\ FieldOf(hs[1].value, 2) = ctx.trace_id
               /\ FieldOf(hs[1].value, 3) = ctx.span_id
               /\ FieldOf(hs[1].value, 4) = <<"0", "1">>
               /\ parse_traceparent(hs[1].value) = trace_context[r]

\* published with a context from a header of another version and other flags
C10_Witness ==
    \E r \in Req :
        /\ IsPost(r) /\ SendOk(r) /\ IsSome(trace_context[r])
        /\ NumFields(Unwrap(req[r].traceparent)) = 4
        /\ FieldOf(Unwrap(req[r].traceparent), 1) = <<"c", "d">>
        /\ FieldOf(Unwrap(req[r].traceparent), 4) = <<"0", "0">>
        /\ FieldOf(Unwrap(req[r].traceparent), 2) = <<"a">>

-----------------------------------------------------------------------------
\* the traceparent headers of a message
TraceparentHeaders(msg) ==
    {i \in 1..Len(msg.headers) : msg.headers[i].key = "traceparent"}

\* a header in the form the service writes: "00-<trace id>-<span id>-01"
IsCanonical(h) ==
    /\ IsText(h) /\ NumFields(h) = 4
    /\ FieldOf(h, 1) = <<"0", "0">> /\ FieldOf(h, 4) = <<"0", "1">>

(* C11, as claimed: for every create request that carries a traceparent    *)
(* header and whose event is published, the traceparent header of the      *)
(* published message has the value of the request's header.                *)
C11_TraceparentForwardedVerbatim ==
    \A r \in Req :
        (IsPost(r) /\ IsSome(req[r].traceparent) /\ SendOk(r)) =>
            /\ TraceparentHeaders(MessageOf(r)) # {}
            /\ \A i \in TraceparentHeaders(MessageOf(r)) :
                   MessageOf(r).headers[i].value = Unwrap(req[r].traceparent)

(* C11, amended: for every create request whose traceparent header has the *)
(* form "00-<trace id>-<span id>-01" (four fields, version 00, flags 01)   *)
(* and whose event is published, the traceparent header of the published   *)
(* message has the value of the request's header.                          *)
C11_CanonicalForwardedVerbatim ==
    \A r \in Req :
        ( /\ IsPost(r) /\ SendOk(r)
          /\ IsSome(req[r].traceparent)
          /\ IsCanonical(Unwrap(req[r].traceparent)) ) =>
            MessageOf(r).headers =
                <<[key |-> "traceparent", value |-> Unwrap(req[r].traceparent)]>>

\* the header of the end-to-end test was published as it came
C11_Witness ==
    \E r \in Req :
        /\ IsPost(r) /\ SendOk(r)
        /\ req[r].traceparent = Some(TraceparentSample)
        /\ IsCanonical(TraceparentSample)
        /\ MessageOf(r).headers[1].value = TraceparentSample

-----------------------------------------------------------------------------
\* the request of task r gives no trace context: header missing or malformed
NoInboundContext(r) ==
    \/ ~IsSome(req[r].traceparent)
    \/ ~IsText(Unwrap(req[r].traceparent))
    \/ NumFields(Unwrap(req[r].traceparent)) < 3

-----------------------------------------------------------------------------
(* C13: the Created event of a create request is built from the entity the *)
(* store returned: the id, name, value and creation timestamp of the       *)
(* payload are those of the persisted row, the message key is the row's    *)
(* id, and every message on the broker has key = payload id = the id of    *)
(* an entity of the store.                                                 *)
C13_EventFromPersistedEntity ==
    /\ \A r \in Req :
           (IsPost(r) /\ SendOk(r)) =>
               LET m == MessageOf(r)
                   row == InsertedRow(r)
               IN /\ InsertOk(r) /\ row \in items
                  /\ m.key = row.id
                  /\ m.payload.id = row.id
                  /\ m.payload.name = row.name
                  /\ m.payload.value = row.value
                  /\ m.payload.created_at = row.created_at
    /\ \A i \in 1..Len(topic) :
           /\ topic[i].key = topic[i].payload.id
           /\ \E row \in items : row.id = topic[i].key
           /\ \E r \in Req : SendOk(r) /\ MessageOf(r) = topic[i]

\* an event whose value is the one the store returned, the request had none,
\* and whose id is not the id field of the request
C13_Witness ==
    \E r \in Req :
        /\ IsPost(r) /\ SendOk(r)
        /\ req[r].value = None
        /\ MessageOf(r).payload.value = InsertedRow(r).value
        /\ MessageOf(r).key # req[r].id
        /\ MessageOf(r).key = InsertedRow(r).id

(* C14: a create request without value persists a value of [0, 1000); a    *)
(* create request with a value persists exactly that value, zero and       *)
(* negative values included; an absent value is not a value of zero.       *)
C14_PersistedValue ==
    \A r \in Req :
        InsertOk(r) =>
            /\ InsertedRow(r) \in items
            /\ IF req[r].value = None
               THEN InsertedRow(r).value >= 0 /\ InsertedRow(r).value < 1000
               ELSE InsertedRow(r).value = Unwrap(req[r].value)
            /\ Got(r, 201) => GotBody(r).value = InsertedRow(r).value

\* a request with the value zero stored zero although the draw was not zero:
\* the draw was not used
C14_Witness ==
    \E r \in Req :
        /\ InsertOk(r) /\ Got(r, 201)
        /\ req[r].value = Some(0)
        /\ InsertedRow(r).value = 0

-----------------------------------------------------------------------------
\* the publish calls that returned, with success / with an error
PublishReturned == {r \in Req : IsPost(r) /\ pc[r] \in {"Responded", "done"}}
PublishSucceeded == {r \in PublishReturned : SendOk(r)}
PublishInFlight == {r \in Req : pc[r] = "Publishing"}

\* the counter counts the successful calls, each of which put one message
CounterMatches ==
    /\ kafka_publish_counter = Cardinality(PublishSucceeded)
    /\ Len(topic) = Cardinality({r \in Req : SendOk(r)})
    /\ PublishInFlight = {} => kafka_publish_counter = Len(topic)

(* C15: after any sequence of publish calls the publish counter is the     *)
(* number of calls that returned success, which is the number of messages  *)
(* enqueued to the broker: a successful call adds exactly one message and  *)
(* one to the counter, a failed call adds no message and leaves the        *)
(* counter as it was, and the counter never decreases.                     *)
C15_CounterCountsPublished ==
    [][ /\ CounterMatches'
        /\ kafka_publish_counter' >= kafka_publish_counter
        /\ \A r \in Req :
               \* the broker answers the send of r
               (send_result[r] = None /\ send_result'[r] # None) =>
                   Len(topic') = Len(topic) + (IF Unwrap(send_result'[r]).ok THEN 1 ELSE 0)
        /\ \A r \in Req :
               \* the publish call of r returns
               (pc[r] = "Publishing" /\ pc'[r] # "Publishing") =>
                   /\ topic' = topic
                   /\ kafka_publish_counter' =
                          kafka_publish_counter + (IF SendOk(r) THEN 1 ELSE 0)
      ]_vars

\* two publish calls returned, one with success and one with an error:
\* one message, counter 1
C15_Witness ==
    /\ \E r \in PublishReturned : SendFailed(r)
    /\ \E r \in PublishReturned : SendOk(r)
    /\ kafka_publish_counter = 1
    /\ Len(topic) = 1

-----------------------------------------------------------------------------
(* C16, as claimed: in every state reached after at least one create       *)
(* request completed with 201, a /metrics snapshot reports a publish       *)
(* counter of at least 1 and at least one sample of the HTTP-duration      *)
(* histogram.                                                              *)
C16_MetricsAfterCreated ==
    (\E r \in Req : IsPost(r) /\ Got(r, 201)) =>
        /\ metrics.home_task_kafka_publish_count >= 1
        /\ metrics.home_task_http_server_duration_count >= 1

(* C16, amended: in every state reached after at least one create request  *)
(* completed with 201, a /metrics snapshot reports at least one sample of  *)
(* the HTTP-duration histogram, and a publish counter of at least 1 if the *)
(* event of such a request was published.                                  *)
C16_MetricsAfterPublishedCreate ==
    \A r \in Req :
        (IsPost(r) /\ Got(r, 201)) =>
            /\ metrics.home_task_http_server_duration_count >= 1
            /\ SendOk(r) => metrics.home_task_kafka_publish_count >= 1

\* one create completed with 201 and a failed publish, another with 201 and
\* its event published: the counter is 1
C16_Witness ==
    /\ \E r \in Req : IsPost(r) /\ Got(r, 201) /\ SendFailed(r)
    /\ \E r \in Req : IsPost(r) /\ Got(r, 201) /\ SendOk(r)
    /\ metrics.home_task_kafka_publish_count = 1
    /\ metrics.home_task_http_server_duration_count = 2

-----------------------------------------------------------------------------
(* C17: under any interleaving of concurrent create requests there is      *)
(* exactly one row per create request whose insert succeeded and none for  *)
(* a failed one, all ids are pairwise distinct, and the id of a row is     *)
(* chosen by the store, never taken from the request.                      *)
C17_OneRowPerSuccessfulCreate ==
    /\ Cardinality(items) = Cardinality(Persisted)
    /\ \A r \in Persisted : InsertedRow(r) \in items
    /\ \A r1, r2 \in Persisted : r1 # r2 => InsertedRow(r1).id # InsertedRow(r2).id
    /\ \A row1, row2 \in items : row1.id = row2.id => row1 = row2
    /\ \A r \in Persisted :
           /\ InsertedRow(r).id # req[r].id
           /\ InsertedRow(r).name = req[r].name
    /\ \A r \in Req : InsertFailed(r) => ~IsSome(item[r])

\* two inserts returned before either handler went on:
\* two rows with two ids
C17_Witness ==
    /\ Cardinality(items) = 2
    /\ \E r1, r2 \in Persisted :
           /\ r1 # r2
           /\ pc[r1] = "Persisting" /\ pc[r2] = "Persisting"
           /\ InsertedRow(r1).id # InsertedRow(r2).id

-----------------------------------------------------------------------------
\* the response task r got is a failure response
GotFailure(r) == pc[r] = "done" /\ IsSome(delivered[r]) /\ Unwrap(delivered[r]).status >= 400

(* C18: every failure response of the HTTP API (400 and 500 of POST        *)
(* /items, 404 and 500 of GET /items/{id}) has a body that holds a single  *)
(* error field with a non-empty, human-readable cause.                     *)
C18_FailureBodyHasError ==
    \A r \in Req :
        GotFailure(r) =>
            /\ Unwrap(delivered[r]).status \in {400, 404, 500}
            /\ IsSome(Unwrap(delivered[r]).body)
            /\ DOMAIN GotBody(r) = {"error"}
            /\ GotBody(r).error # <<>>

-----------------------------------------------------------------------------
\* the Created event of the item of task r
EventOf(r) == ItemEvent_Created(Unwrap(item[r]))

-----------------------------------------------------------------------------
\* the messages of the topic that are events of the entity of this id
EventsOf(id) == {i \in 1..Len(topic) : topic[i].payload.id = id}

(* C20: the publisher is called at most once per create request and a      *)
(* failed publish is never retried or queued again: in every reachable     *)
(* state the broker holds at most one Created event per entity id, and an  *)
(* entity whose publish failed has no event, then and ever after.          *)
C20_AtMostOneEvent ==
    /\ \A row \in items : Cardinality(EventsOf(row.id)) <= 1
    /\ Len(topic) <= Cardinality(Persisted)
    /\ \A r \in Req :
           (IsPost(r) /\ SendFailed(r)) => EventsOf(InsertedRow(r).id) = {}
    /\ \A r \in Req :
           (IsPost(r) /\ SendOk(r)) => EventsOf(InsertedRow(r).id) =
                                           {Unwrap(Unwrap(send_result[r]).val).offset + 1}

\* a create finished with 201 after its publish failed and its entity has
\* no event, while the entity of another create has its one event
C20_Witness ==
    /\ \E r \in Req :
           /\ IsPost(r) /\ SendFailed(r) /\ Got(r, 201)
           /\ InsertedRow(r) \in items
           /\ EventsOf(InsertedRow(r).id) = {}
    /\ \E r \in Req :
           /\ IsPost(r) /\ SendOk(r) /\ pc[r] = "done"
           /\ Cardinality(EventsOf(InsertedRow(r).id)) = 1

-----------------------------------------------------------------------------
\* the store calls (INSERT of a create, SELECT of a read) that returned to
\* their handler, with a row, without one or with an error
StoreCallsReturned ==
    {r \in Req : IsSome(db_result[r]) /\ pc[r] \notin {"Persisting", "Reading"}}

(* C21: every store operation call, create and getById, whether it         *)
(* succeeds, finds no row or fails with a backend error, records exactly   *)
(* one sample in the store-operation duration histogram.                   *)
C21_StoreCallsObserved ==
    db_duration_histogram = Cardinality(StoreCallsReturned)

-----------------------------------------------------------------------------
\* the requests the wrapper has completed
Completed == {r \in Req : pc[r] = "done"}
StatusOf(r) == Unwrap(delivered[r]).status

(* C22: the instrumentation wrapper records exactly one sample in the      *)
(* HTTP-request duration histogram for every request whose handler         *)
(* returned, whatever the status of the response and whichever handler     *)
(* ran: the sample count is the number of completed requests.              *)
C22_HttpSamplePerRequest ==
    /\ http_duration_histogram = Cardinality(Completed)
    /\ \A r \in Completed : IsSome(delivered[r]) /\ StatusOf(r) \in {200, 201, 400, 404, 500}

\* a create answered 201 and a read answered 404 or 500: two samples
C22_Witness ==
    /\ http_duration_histogram = 2
    /\ \E r \in Completed : IsPost(r) /\ StatusOf(r) = 201
    /\ \E r \in Completed : IsGet(r) /\ StatusOf(r) >= 400

(* C23: for every request the wrapper emits exactly one completion log     *)
(* entry, of level error when the status is at least 500, warn when it is  *)
(* in 400..499 and info otherwise, and it returns the response of the      *)
(* handler with status and body unchanged.                                 *)
C23_OneLogEntryAndSameResponse ==
    \A r \in Req :
        IF r \in Completed
        THEN /\ Len(completion_log[r]) = 1
             /\ completion_log[r][1].status = Unwrap(response[r]).status
             /\ completion_log[r][1].level =
                    IF Unwrap(response[r]).status >= 500 THEN "error"
                    ELSE IF Unwrap(response[r]).status >= 400 THEN "warn"
                    ELSE "info"
             /\ delivered[r] = response[r]
        ELSE completion_log[r] = <<>> /\ delivered[r] = None

\* a request logged at error with its 500 and a request logged at warn with
\* its 400, each handed back as the handler returned it
C23_Witness ==
    /\ \E r \in Completed :
           /\ StatusOf(r) = 500 /\ completion_log[r][1].level = "error"
           /\ delivered[r] = response[r]
    /\ \E r \in Completed :
           /\ StatusOf(r) = 400 /\ completion_log[r][1].level = "warn"
           /\ IsSome(Unwrap(delivered[r]).body)

-----------------------------------------------------------------------------
\* the request of task r is over: answered, or dropped with its connection
AtRest(r) == pc[r] \in {"done", "Cancelled"}

(* C24: once a create request has entered Persisting, a client             *)
(* disconnection does not cancel it: it runs to completion or failure, so  *)
(* every entity the request persisted is followed by a publish attempt     *)
(* for that entity, whether or not the client is still connected.          *)
C24_PersistedThenPublishAttempt ==
    \A r \in Req :
        (IsPost(r) /\ AtRest(r) /\ InsertOk(r)) =>
            /\ pc[r] = "done"
            /\ IsSome(send_result[r])

-----------------------------------------------------------------------------
\* the terminals of the create pipeline
Terminals == {"ValidationFailed", "PersistFailed", "Responded"}

\* the order in which a create request goes through the pipeline
PipelineEdges ==
    { <<"idle", "Validating">>,
      <<"Validating", "ValidationFailed">>, <<"Validating", "Persisting">>,
      <<"Persisting", "PersistFailed">>, <<"Persisting", "Publishing">>,
      <<"Publishing", "Responded">>,
      <<"ValidationFailed", "done">>, <<"PersistFailed", "done">>,
      <<"Responded", "done">> }

-----------------------------------------------------------------------------
(* C26: the body of a 500 response does not depend on the internal cause   *)
(* of the store failure: the response a create gets when its insert fails  *)
(* is the response it gets when the insert fails for any other cause, so   *)
(* no internal error detail reaches the caller.                            *)
C26_FailureBodyIndependentOfCause ==
    \A r \in Req :
        (IsPost(r) /\ Got(r, 500) /\ InsertFailed(r)) =>
            \A e \in DbErrors :
                Unwrap(delivered[r]) = persist_failed_response(e)

-----------------------------------------------------------------------------
(* C27: the store is append-only for the service: no step of the HTTP API  *)
(* updates or deletes an entity; an entity that exists with id i is, after *)
(* every step, the one entity with id i, with the same name, value and     *)
(* creation timestamp.                                                     *)
C27_AppendOnly ==
    [][ \A row \in items : {x \in items' : x.id = row.id} = {row} ]_vars

\* two creates of the same name ran their insert, one was answered, and both rows exist
C27_Witness ==
    \E r1 \in Req, r2 \in Req :
        /\ r1 # r2
        /\ Got(r1, 201) /\ IsPost(r2) /\ InsertOk(r2)
        /\ InsertedRow(r1).name = InsertedRow(r2).name
        /\ InsertedRow(r1).id # InsertedRow(r2).id
        /\ {InsertedRow(r1), InsertedRow(r2)} \subseteq items

-----------------------------------------------------------------------------
\* the creates that resumed from a successful insert and entered the publish
PublishEntered == {r \in Req : IsPost(r) /\ IsSome(item[r])}

\* the creates whose row is stored and whose handler has not resumed from the
\* insert, and so has not recorded its duration
InsertUnobserved == {r \in Req : InsertOk(r) /\ item[r] = None}

(* C28 as stated: in every reachable state, publish counter <= number of   *)
(* stored entities <= sample count of the store histogram.                 *)
C28_CounterRowsSamples ==
    /\ kafka_publish_counter <= Cardinality(items)
    /\ Cardinality(items) <= db_duration_histogram

(* C28, amended: in every reachable state the publish counter is at most   *)
(* the number of stored entities and at most the sample count of the store *)
(* histogram; every request that entered the publish has its own row in    *)
(* the store and recorded the duration of its insert before; the stored    *)
(* entities exceed the samples by at most the inserts whose handler has    *)
(* not resumed from the store call.                                        *)
C28_CounterBelowRowsAndSamples ==
    /\ kafka_publish_counter <= Cardinality(PublishEntered)
    /\ Cardinality(PublishEntered) <= Cardinality(items)
    /\ Cardinality(PublishEntered) <= db_duration_histogram
    /\ \A r \in PublishEntered :
           /\ InsertOk(r)
           /\ InsertedRow(r) \in items
           /\ Unwrap(item[r]) = InsertedRow(r)
    /\ \A r \in Req : (pc[r] = "Publishing" \/ IsSome(send_result[r])) => r \in PublishEntered
    /\ Cardinality(items) <= db_duration_histogram + Cardinality(InsertUnobserved)

\* a publish was counted while the store holds a row whose insert is not yet timed
C28_Witness ==
    /\ kafka_publish_counter >= 1
    /\ InsertUnobserved # {}
    /\ Cardinality(items) > db_duration_histogram

-----------------------------------------------------------------------------
(* C29: concurrent create requests do not mix their state: under any       *)
(* interleaving the entity in the 201 body of a request is the row that    *)
(* request inserted, made of its own name and value, and the message a     *)
(* request published carries the event of that row and the headers of the  *)
(* trace context of the request's own traceparent header; no other request *)
(* has that row or that message.                                           *)
C29_RequestsDoNotMix ==
    \A r \in Req :
        IsPost(r) =>
            /\ Got(r, 201) =>
                   /\ InsertOk(r)
                   /\ GotBody(r) = InsertedRow(r)
                   /\ GotBody(r).name = req[r].name
                   /\ GotBody(r).value = Unwrap(value[r])
            /\ SendOk(r) =>
                   /\ InsertOk(r)
                   /\ from_slice(MessageOf(r).payload) =
                          Ok(ItemEvent_Created(InsertedRow(r)))
                   /\ MessageOf(r).key = InsertedRow(r).id
                   /\ MessageOf(r).headers =
                          inject_w3c_headers(extract_w3c_trace_context(req[r].traceparent))
            /\ \A k \in Req \ {r} :
                   /\ (InsertOk(r) /\ InsertOk(k)) => InsertedRow(r).id # InsertedRow(k).id
                   /\ (SendOk(r) /\ SendOk(k)) =>
                          MessageOf(r) # MessageOf(k)

\* two creates with different names and trace headers ran interleaved (the
\* one whose row came first published last) and both got 201
C29_Witness ==
    \E r1 \in Req, r2 \in Req :
        /\ Got(r1, 201) /\ Got(r2, 201)
        /\ SendOk(r1) /\ SendOk(r2)
        /\ req[r1].name # req[r2].name
        /\ req[r1].traceparent # req[r2].traceparent
        /\ MessageOf(r1).headers # MessageOf(r2).headers
        /\ InsertedRow(r1).id < InsertedRow(r2).id
        /\ Unwrap(Unwrap(send_result[r1]).val).offset >
               Unwrap(Unwrap(send_result[r2]).val).offset

====
